---- MODULE Spec2Model ----
(***************************************************************************)
(* Model of run_action.py: translation of Clang-Tidy diagnostics into      *)
(* review comments restricted to the lines changed by a pull request.      *)
(*                                                                         *)
(* Text is a sequence of one-character strings (latin_1: one byte, one     *)
(* character).  Python's 0-based, half-open indices are kept in the        *)
(* operators that model Python code; element i of a Python sequence s is   *)
(* s[i + 1] here.                                                          *)
(***************************************************************************)
EXTENDS Integers, Sequences, FiniteSets, TLC

LF == "\n"
CR == "\r"
FF == "\f"
SP == " "

\* Python's None where a line number is expected (line numbers start at 1),
\* and where a text is expected (no text holds a multi-character element).
NoLine == 0
NoText == <<"None">>

Min(S) == CHOOSE x \in S : \A y \in S : x <= y
Max(S) == CHOOSE x \in S : \A y \in S : x >= y

\* Python slice s[lo:hi] for 0 <= lo, with hi clipped to len(s).
Slice(s, lo, hi) ==
    LET h == IF hi > Len(s) THEN Len(s) ELSE hi
    IN  IF lo >= h THEN << >> ELSE SubSeq(s, lo + 1, h)

\* Python "".join(seq_of_strings).
RECURSIVE Join(_)
Join(ss) == IF ss = << >> THEN << >> ELSE Head(ss) \o Join(Tail(ss))

\* Python s.count(ch).
RECURSIVE Count(_, _)
Count(s, ch) ==
    IF s = << >> THEN 0
    ELSE (IF Head(s) = ch THEN 1 ELSE 0) + Count(Tail(s), ch)

\* Python s.startswith(p).
StartsWith(s, p) == Len(s) >= Len(p) /\ SubSeq(s, 1, Len(p)) = p

(***************************************************************************)
(* open(path, encoding="latin_1").read(): text mode with the default       *)
(* newline=None, so universal newlines are on: "\r\n" and a lone "\r" are  *)
(* both read as "\n".                                                      *)
(***************************************************************************)
RECURSIVE ReadText(_)
ReadText(bytes) ==
    IF bytes = << >> THEN << >>
    ELSE IF Head(bytes) = CR
         THEN IF Len(bytes) >= 2 /\ bytes[2] = LF
              THEN <<LF>> \o ReadText(Tail(Tail(bytes)))
              ELSE <<LF>> \o ReadText(Tail(bytes))
         ELSE <<Head(bytes)>> \o ReadText(Tail(bytes))

\* The line boundaries of str.splitlines() that the modelled alphabet holds
\* ("\r" never survives ReadText; "\f" stands for \x0b \x0c \x1c \x1d \x1e \x85).
LineBreaks == {LF, CR, FF}

\* str.splitlines(keepends=True)
RECURSIVE SplitLinesFrom(_, _)
SplitLinesFrom(s, cur) ==
    IF s = << >> THEN (IF cur = << >> THEN << >> ELSE <<cur>>)
    ELSE IF Head(s) = CR /\ Len(s) >= 2 /\ s[2] = LF
         THEN <<cur \o <<CR, LF>> >> \o SplitLinesFrom(Tail(Tail(s)), << >>)
         ELSE IF Head(s) \in LineBreaks
              THEN <<cur \o <<Head(s)>> >> \o SplitLinesFrom(Tail(s), << >>)
              ELSE SplitLinesFrom(Tail(s), cur \o <<Head(s)>>)

splitlines(s) == SplitLinesFrom(s, << >>)

(***************************************************************************)
(* get_line_by_offset: the file is read in text mode, then newlines are    *)
(* counted in the first `offset` characters of what was read.              *)
(***************************************************************************)
get_line_by_offset(bytes, offset) ==
    Count(Slice(ReadText(bytes), 0, offset), LF) + 1

(***************************************************************************)
(* difflib.SequenceMatcher(None, a, b) as calculate_replacements_diff uses *)
(* it through difflib.Differ().compare: no junk, and the "popular element" *)
(* heuristic is off below 200 elements.                                    *)
(***************************************************************************)

\* Length of the common run of a[i:ahi] and b[j:bhi] starting at (i, j).
RECURSIVE RunLen(_, _, _, _, _, _)
RunLen(a, b, i, j, ahi, bhi) ==
    IF i < ahi /\ j < bhi /\ a[i + 1] = b[j + 1]
    THEN 1 + RunLen(a, b, i + 1, j + 1, ahi, bhi)
    ELSE 0

\* find_longest_match: the longest block a[i:i+k] == b[j:j+k] inside the
\* window; of those the one starting earliest in a, then earliest in b.
\* k is the length of the longest block.
EarliestInB(a, b, ahi, blo, bhi, bi, k) ==
    <<bi,
      Min({j \in blo .. bhi - 1 : RunLen(a, b, bi, j, ahi, bhi) = k}),
      k>>

EarliestMatch(a, b, alo, ahi, blo, bhi, k) ==
    IF k = 0 THEN <<alo, blo, 0>>
    ELSE EarliestInB(a, b, ahi, blo, bhi,
                     Min({i \in alo .. ahi - 1 :
                            \E j \in blo .. bhi - 1 :
                                RunLen(a, b, i, j, ahi, bhi) = k}),
                     k)

find_longest_match(a, b, alo, ahi, blo, bhi) ==
    EarliestMatch(a, b, alo, ahi, blo, bhi,
                  Max({0} \cup {RunLen(a, b, i, j, ahi, bhi) :
                                   i \in alo .. ahi - 1,
                                   j \in blo .. bhi - 1}))

\* The blocks get_matching_blocks collects, already in sorted order; x is
\* the longest match of the window.
RECURSIVE RawBlocks(_, _, _, _, _, _)
BlocksAround(a, b, alo, ahi, blo, bhi, x) ==
    IF x[3] = 0 THEN << >>
    ELSE (IF alo < x[1] /\ blo < x[2]
          THEN RawBlocks(a, b, alo, x[1], blo, x[2]) ELSE << >>)
         \o <<x>>
         \o (IF x[1] + x[3] < ahi /\ x[2] + x[3] < bhi
             THEN RawBlocks(a, b, x[1] + x[3], ahi, x[2] + x[3], bhi)
             ELSE << >>)

RawBlocks(a, b, alo, ahi, blo, bhi) ==
    BlocksAround(a, b, alo, ahi, blo, bhi,
                 find_longest_match(a, b, alo, ahi, blo, bhi))

\* The loop of get_matching_blocks that merges adjacent blocks; cur is
\* (i1, j1, k1).
RECURSIVE Collapse(_, _)
Collapse(blocks, cur) ==
    IF blocks = << >>
    THEN (IF cur[3] > 0 THEN <<cur>> ELSE << >>)
    ELSE LET n == Head(blocks)
         IN  IF cur[1] + cur[3] = n[1] /\ cur[2] + cur[3] = n[2]
             THEN Collapse(Tail(blocks), <<cur[1], cur[2], cur[3] + n[3]>>)
             ELSE (IF cur[3] > 0 THEN <<cur>> ELSE << >>)
                  \o Collapse(Tail(blocks), n)

get_matching_blocks(a, b) ==
    Collapse(RawBlocks(a, b, 0, Len(a), 0, Len(b)), <<0, 0, 0>>)
        \o << <<Len(a), Len(b), 0>> >>

\* get_opcodes: (tag, i1, i2, j1, j2) tuples from the matching blocks.
RECURSIVE OpcodesFrom(_, _, _)
OpcodesFrom(blocks, i, j) ==
    IF blocks = << >> THEN << >>
    ELSE LET ai   == Head(blocks)[1]
             bj   == Head(blocks)[2]
             size == Head(blocks)[3]
             tag  == IF i < ai /\ j < bj THEN "replace"
                     ELSE IF i < ai THEN "delete"
                     ELSE IF j < bj THEN "insert"
                     ELSE ""
         IN  (IF tag # "" THEN << <<tag, i, ai, j, bj>> >> ELSE << >>)
             \o (IF size > 0
                 THEN << <<"equal", ai, ai + size, bj, bj + size>> >>
                 ELSE << >>)
             \o OpcodesFrom(Tail(blocks), ai + size, bj + size)

get_opcodes(a, b) == OpcodesFrom(get_matching_blocks(a, b), 0, 0)

\* SequenceMatcher.ratio() is 2 * matches / (len(a) + len(b)); kept as the
\* fraction <<numerator, denominator>> (1.0 when both are empty).
RECURSIVE SumSizes(_)
SumSizes(blocks) ==
    IF blocks = << >> THEN 0 ELSE Head(blocks)[3] + SumSizes(Tail(blocks))

ratio(a, b) ==
    IF Len(a) + Len(b) = 0 THEN <<1, 1>>
    ELSE <<2 * SumSizes(get_matching_blocks(a, b)), Len(a) + Len(b)>>

\* p > q for fractions with positive denominators
FracGT(p, q) == p[1] * q[2] > q[1] * p[2]

(***************************************************************************)
(* difflib.Differ().compare(a, b) on two lists of lines.  Every output     *)
(* line is a two-character tag ("- ", "+ ", "  " or "? ") followed by the  *)
(* text of the line.                                                       *)
(***************************************************************************)
WhiteSpace == {SP, LF, CR, FF}

RECURSIVE Repeat(_, _)
Repeat(ch, n) == IF n <= 0 THEN << >> ELSE <<ch>> \o Repeat(ch, n - 1)

RECURSIVE rstrip(_)
rstrip(s) ==
    IF s # << >> /\ s[Len(s)] \in WhiteSpace
    THEN rstrip(SubSeq(s, 1, Len(s) - 1))
    ELSE s

\* Differ._dump
RECURSIVE Dump(_, _, _, _)
Dump(tag, x, lo, hi) ==
    IF lo >= hi THEN << >>
    ELSE << <<tag, SP>> \o x[lo + 1] >> \o Dump(tag, x, lo + 1, hi)

\* Differ._plain_replace
PlainReplace(a, alo, ahi, b, blo, bhi) ==
    IF bhi - blo < ahi - alo
    THEN Dump("+", b, blo, bhi) \o Dump("-", a, alo, ahi)
    ELSE Dump("-", a, alo, ahi) \o Dump("+", b, blo, bhi)

\* One step of the search loop of Differ._fancy_replace on the pair (i, j)
\* whose ratio is r; st holds best_ratio, best_i, best_j, eqi, eqj (-1 for
\* Python's None).
BestStep(st, i, j, equal, r) ==
    IF equal
    THEN (IF st.eqi = -1 THEN [st EXCEPT !.eqi = i, !.eqj = j] ELSE st)
    ELSE IF FracGT(r, st.best_ratio)
         THEN [st EXCEPT !.best_ratio = r, !.best_i = i, !.best_j = j]
         ELSE st

\* The search loop, from pair number p of the (j outer, i inner) iteration.
RECURSIVE BestPair(_, _, _, _, _, _, _, _)
BestPair(a, alo, ahi, b, blo, bhi, p, st) ==
    IF p >= (ahi - alo) * (bhi - blo) THEN st
    ELSE BestPair(a, alo, ahi, b, blo, bhi, p + 1,
                  BestStep(st, alo + (p % (ahi - alo)),
                           blo + (p \div (ahi - alo)),
                           a[alo + (p % (ahi - alo)) + 1]
                               = b[blo + (p \div (ahi - alo)) + 1],
                           ratio(a[alo + (p % (ahi - alo)) + 1],
                                 b[blo + (p \div (ahi - alo)) + 1])))

\* The intraline marks of Differ._fancy_replace: side 1 gives atags, side 2
\* gives btags.
RECURSIVE IntraTags(_, _)
IntraTags(ops, side) ==
    IF ops = << >> THEN << >>
    ELSE LET op == Head(ops)
             la == op[3] - op[2]
             lb == op[5] - op[4]
             n  == IF side = 1 THEN la ELSE lb
             me == IF op[1] = "replace" THEN Repeat("^", n)
                   ELSE IF op[1] = "delete"
                        THEN (IF side = 1 THEN Repeat("-", la) ELSE << >>)
                   ELSE IF op[1] = "insert"
                        THEN (IF side = 2 THEN Repeat("+", lb) ELSE << >>)
                   ELSE Repeat(SP, n)
         IN  me \o IntraTags(Tail(ops), side)

\* difflib._keep_original_ws
keep_original_ws(s, tag_s) ==
    [n \in 1 .. (IF Len(s) < Len(tag_s) THEN Len(s) ELSE Len(tag_s)) |->
        IF tag_s[n] = SP /\ s[n] \in WhiteSpace THEN s[n] ELSE tag_s[n]]

\* Differ._qformat
qformat(aline, bline, atags0, btags0) ==
    LET atags == rstrip(keep_original_ws(aline, atags0))
        btags == rstrip(keep_original_ws(bline, btags0))
    IN  << <<"-", SP>> \o aline >>
        \o (IF atags # << >> THEN << <<"?", SP>> \o atags \o <<LF>> >>
            ELSE << >>)
        \o << <<"+", SP>> \o bline >>
        \o (IF btags # << >> THEN << <<"?", SP>> \o btags \o <<LF>> >>
            ELSE << >>)

\* Differ._fancy_replace and Differ._fancy_helper.  FancySynch is the part
\* of _fancy_replace after the search: close says that a "pretty close"
\* pair was found, (best_i, best_j) is the synch pair.
RECURSIVE FancyReplace(_, _, _, _, _, _)
RECURSIVE FancyHelper(_, _, _, _, _, _)
SynchLines(aelt, belt, close, ops) ==
    IF close
    THEN qformat(aelt, belt, IntraTags(ops, 1), IntraTags(ops, 2))
    ELSE << <<SP, SP>> \o aelt >>

FancySynch(a, alo, ahi, b, blo, bhi, close, best_i, best_j) ==
    FancyHelper(a, alo, best_i, b, blo, best_j)
        \o SynchLines(a[best_i + 1], b[best_j + 1], close,
                      get_opcodes(a[best_i + 1], b[best_j + 1]))
        \o FancyHelper(a, best_i + 1, ahi, b, best_j + 1, bhi)

FancyAfterSearch(a, alo, ahi, b, blo, bhi, st, close) ==
    IF ~close /\ st.eqi = -1
    THEN PlainReplace(a, alo, ahi, b, blo, bhi)
    ELSE FancySynch(a, alo, ahi, b, blo, bhi, close,
                    IF close THEN st.best_i ELSE st.eqi,
                    IF close THEN st.best_j ELSE st.eqj)

FancyWith(a, alo, ahi, b, blo, bhi, st) ==
    FancyAfterSearch(a, alo, ahi, b, blo, bhi, st,
                     ~FracGT(<<75, 100>>, st.best_ratio))

FancyReplace(a, alo, ahi, b, blo, bhi) ==
    FancyWith(a, alo, ahi, b, blo, bhi,
              BestPair(a, alo, ahi, b, blo, bhi, 0,
                       [best_ratio |-> <<74, 100>>, best_i |-> -1,
                        best_j |-> -1, eqi |-> -1, eqj |-> -1]))

FancyHelper(a, alo, ahi, b, blo, bhi) ==
    IF alo < ahi
    THEN (IF blo < bhi THEN FancyReplace(a, alo, ahi, b, blo, bhi)
          ELSE Dump("-", a, alo, ahi))
    ELSE (IF blo < bhi THEN Dump("+", b, blo, bhi) ELSE << >>)

\* Differ.compare
RECURSIVE CompareOps(_, _, _)
CompareOps(ops, a, b) ==
    IF ops = << >> THEN << >>
    ELSE LET op == Head(ops)
             g  == IF op[1] = "replace"
                   THEN FancyReplace(a, op[2], op[3], b, op[4], op[5])
                   ELSE IF op[1] = "delete" THEN Dump("-", a, op[2], op[3])
                   ELSE IF op[1] = "insert" THEN Dump("+", b, op[4], op[5])
                   ELSE Dump(SP, a, op[2], op[3])
         IN  g \o CompareOps(Tail(ops), a, b)

Differ_compare(a, b) == CompareOps(get_opcodes(a, b), a, b)

(***************************************************************************)
(* String helpers used by get_diff_line_ranges_per_file.                   *)
(***************************************************************************)

\* Smallest 0-based index p >= from with s[p:p+len(sub)] == sub, or -1
\* (str.find).
RECURSIVE Find(_, _, _)
Find(s, sub, from) ==
    IF from + Len(sub) > Len(s) THEN -1
    ELSE IF SubSeq(s, from + 1, from + Len(sub)) = sub THEN from
    ELSE Find(s, sub, from + 1)

\* str.replace(old, new): every non-overlapping occurrence, left to right.
RECURSIVE Replace(_, _, _)
Replace(s, old, new) ==
    IF Len(s) < Len(old) \/ old = << >> THEN s
    ELSE IF SubSeq(s, 1, Len(old)) = old
         THEN new \o Replace(SubSeq(s, Len(old) + 1, Len(s)), old, new)
         ELSE <<Head(s)>> \o Replace(Tail(s), old, new)

RECURSIVE lstrip(_)
lstrip(s) ==
    IF s # << >> /\ Head(s) \in WhiteSpace THEN lstrip(Tail(s)) ELSE s

strip(s) == rstrip(lstrip(s))

\* str.split(sep) for a one-character separator.
RECURSIVE SplitOnFrom(_, _, _)
SplitOnFrom(s, sep, cur) ==
    IF s = << >> THEN <<cur>>
    ELSE IF Head(s) = sep
         THEN <<cur>> \o SplitOnFrom(Tail(s), sep, << >>)
         ELSE SplitOnFrom(Tail(s), sep, cur \o <<Head(s)>>)

SplitOn(s, sep) == SplitOnFrom(s, sep, << >>)

\* str.split(): runs of whitespace separate, no empty strings.
RECURSIVE SplitWsFrom(_, _)
SplitWsFrom(s, cur) ==
    IF s = << >> THEN (IF cur = << >> THEN << >> ELSE <<cur>>)
    ELSE IF Head(s) \in WhiteSpace
         THEN (IF cur = << >> THEN << >> ELSE <<cur>>)
              \o SplitWsFrom(Tail(s), << >>)
         ELSE SplitWsFrom(Tail(s), cur \o <<Head(s)>>)

SplitWs(s) == SplitWsFrom(s, << >>)

Digits == <<"0", "1", "2", "3", "4", "5", "6", "7", "8", "9">>

DigitValue(ch) == (CHOOSE n \in 1 .. 10 : Digits[n] = ch) - 1

\* int(s) for a string of decimal digits.
RECURSIVE ParseInt(_)
ParseInt(s) ==
    IF Len(s) = 1 THEN DigitValue(s[1])
    ELSE 10 * ParseInt(SubSeq(s, 1, Len(s) - 1)) + DigitValue(s[Len(s)])

(***************************************************************************)
(* get_diff_line_ranges_per_file                                           *)
(***************************************************************************)

\* A range(start, stop) object; the step is always 1.
Range(start, stop) == [start |-> start, stop |-> stop]

\* change_to_line_range with the size of a header that omits it taken as 0.
change_to_line_range_empty(change) ==
    LET split_change == SplitOn(change, ",")
        start == ParseInt(split_change[1])
        size  == IF Len(split_change) > 1 THEN ParseInt(split_change[2])
                 ELSE 0
    IN  Range(start, start + size)

\* change_to_line_range
change_to_line_range(change) ==
    LET split_change == SplitOn(change, ",")
        start == ParseInt(split_change[1])
        size  == IF Len(split_change) > 1 THEN ParseInt(split_change[2])
                 ELSE 1
    IN  Range(start, start + size)

\* End index of the space run starting at 0-based index q.
RECURSIVE SpaceRunEnd(_, _)
SpaceRunEnd(line, q) ==
    IF q < Len(line) /\ line[q + 1] = SP THEN SpaceRunEnd(line, q + 1) ELSE q

\* The text the pattern ^@@ -.*? +.*? @@ matches at the start of a line
\* (" +" is one or more spaces), or << >> when it does not match: "@@ -",
\* the shortest text up to a run of spaces, that run taken greedily, then
\* the shortest text up to " @@".
HeaderMatch(line) ==
    LET q  == Find(line, <<SP>>, 4)
        q2 == SpaceRunEnd(line, q)
        p  == Find(line, <<SP, "@", "@">>, q2)
    IN  IF ~StartsWith(line, <<"@", "@", SP, "-">>) \/ q = -1 THEN << >>
        ELSE IF p # -1 THEN Slice(line, 0, p + 3)
        ELSE IF q2 - q >= 2 /\ Slice(line, q2, q2 + 2) = <<"@", "@">>
             THEN Slice(line, 0, q2 + 2)
        ELSE << >>

\* re.findall(r"^@@ -.*? +.*? @@", patch, re.MULTILINE): "^" matches at the
\* start of the text and after each "\n", "." matches all but "\n".
RECURSIVE MatchesIn(_)
MatchesIn(lines) ==
    IF lines = << >> THEN << >>
    ELSE (IF HeaderMatch(Head(lines)) # << >>
          THEN <<HeaderMatch(Head(lines))>> ELSE << >>)
         \o MatchesIn(Tail(lines))

git_line_tags(patch) == MatchesIn(SplitOn(patch, LF))

\* tag.replace("@@", "").strip().split()[1].replace("+", "")
TagToChange(tag) ==
    Replace(SplitWs(strip(Replace(tag, <<"@", "@">>, << >>)))[2],
            <<"+">>, << >>)

RECURSIVE LineRangesOf(_)
LineRangesOf(tags) ==
    IF tags = << >> THEN << >>
    ELSE <<change_to_line_range(TagToChange(Head(tags)))>>
         \o LineRangesOf(Tail(tags))

\* The loop over pr_files; result is the dict built so far.
RECURSIVE RangesLoop(_, _)
RangesLoop(pr_files, result) ==
    IF pr_files = << >> THEN result
    ELSE LET pr_file == Head(pr_files)
         IN  IF "patch" \notin DOMAIN pr_file
             THEN RangesLoop(Tail(pr_files), result)
             ELSE RangesLoop(Tail(pr_files),
                     [f \in DOMAIN result \cup {pr_file.filename} |->
                         IF f = pr_file.filename
                         THEN LineRangesOf(git_line_tags(pr_file.patch))
                         ELSE result[f]])

get_diff_line_ranges_per_file(pr_files) == RangesLoop(pr_files, << >>)

(***************************************************************************)
(* reorder_diagnostics                                                     *)
(***************************************************************************)
RECURSIVE Filter(_, _)
Filter(s, levels) ==
    IF s = << >> THEN << >>
    ELSE (IF Head(s).Level \in levels THEN <<Head(s)>> ELSE << >>)
         \o Filter(Tail(s), levels)

RECURSIVE FilterNot(_, _)
FilterNot(s, levels) ==
    IF s = << >> THEN << >>
    ELSE (IF Head(s).Level \notin levels THEN <<Head(s)>> ELSE << >>)
         \o FilterNot(Tail(s), levels)

\* reorder_diagnostics with the buckets built from the list read backwards.
reorder_diagnostics_backwards(diags) ==
    LET rev == [n \in 1 .. Len(diags) |-> diags[Len(diags) + 1 - n]]
    IN  Filter(rev, {"Error"}) \o Filter(rev, {"Warning"})
            \o Filter(rev, {"Remark"})
            \o FilterNot(rev, {"Error", "Warning", "Remark"})

reorder_diagnostics(diags) ==
    LET errors   == Filter(diags, {"Error"})
        warnings == Filter(diags, {"Warning"})
        remarks  == Filter(diags, {"Remark"})
        others   == FilterNot(diags, {"Error", "Warning", "Remark"})
    IN  errors \o warnings \o remarks \o others

(***************************************************************************)
(* Path normalisation: posixpath.normpath(path.replace(repository_root,    *)
(* "")).  Paths are character sequences.                                   *)
(***************************************************************************)
SEP == "/"

RECURSIVE JoinWith(_, _)
JoinWith(comps, sep) ==
    IF comps = << >> THEN << >>
    ELSE IF Len(comps) = 1 THEN comps[1]
    ELSE comps[1] \o <<sep>> \o JoinWith(Tail(comps), sep)

\* The loop of posixpath.normpath over the components.
RECURSIVE NormComps(_, _, _)
NormComps(comps, new_comps, initial_slashes) ==
    IF comps = << >> THEN new_comps
    ELSE LET comp == Head(comps)
         IN  IF comp = << >> \/ comp = <<".">>
             THEN NormComps(Tail(comps), new_comps, initial_slashes)
             ELSE IF comp # <<".", ".">>
                     \/ (initial_slashes = 0 /\ new_comps = << >>)
                     \/ (new_comps # << >>
                         /\ new_comps[Len(new_comps)] = <<".", ".">>)
             THEN NormComps(Tail(comps), Append(new_comps, comp),
                            initial_slashes)
             ELSE IF new_comps # << >>
             THEN NormComps(Tail(comps),
                            SubSeq(new_comps, 1, Len(new_comps) - 1),
                            initial_slashes)
             ELSE NormComps(Tail(comps), new_comps, initial_slashes)

normpath(path) ==
    IF path = << >> THEN <<".">>
    ELSE LET initial_slashes ==
                 IF ~StartsWith(path, <<SEP>>) THEN 0
                 ELSE IF StartsWith(path, <<SEP, SEP>>)
                         /\ ~StartsWith(path, <<SEP, SEP, SEP>>) THEN 2
                 ELSE 1
             joined == JoinWith(NormComps(SplitOn(path, SEP), << >>,
                                          initial_slashes), SEP)
             result == Repeat(SEP, initial_slashes) \o joined
         IN  IF result = << >> THEN <<".">> ELSE result

NormalizePath(path, repository_root) ==
    normpath(Replace(path, repository_root, << >>))

(***************************************************************************)
(* The helpers nested in generate_review_comments.                         *)
(***************************************************************************)

\* The test of one range with the stop bound taken as inclusive.
RangeCovers_inclusive(line_range, start_line_num, end_line_num) ==
    line_range.start <= start_line_num /\ end_line_num <= line_range.stop

\* The test of one range in validate_warning_applicability.
RangeCovers(line_range, start_line_num, end_line_num) ==
    line_range.start <= start_line_num /\ end_line_num < line_range.stop

\* validate_warning_applicability with the two ends of the interval tested
\* apart, each against any range of the file.
validate_warning_applicability_ends(ranges_per_file, file_path, start_line_num, end_line_num) ==
    /\ \E n \in 1 .. Len(ranges_per_file[file_path]) :
           RangeCovers(ranges_per_file[file_path][n],
                       start_line_num, start_line_num)
    /\ \E n \in 1 .. Len(ranges_per_file[file_path]) :
           RangeCovers(ranges_per_file[file_path][n],
                       end_line_num, end_line_num)

\* validate_warning_applicability asking every range of the file to cover
\* the interval.
validate_warning_applicability_all(ranges_per_file, file_path, start_line_num, end_line_num) ==
    \A n \in 1 .. Len(ranges_per_file[file_path]) :
        RangeCovers(ranges_per_file[file_path][n],
                    start_line_num, end_line_num)

\* validate_warning_applicability, for a file that is a key of the map and
\* end_line_num >= start_line_num (the assertion is checked by the callers).
validate_warning_applicability(ranges_per_file, file_path, start_line_num, end_line_num) ==
    \E n \in 1 .. Len(ranges_per_file[file_path]) :
        RangeCovers(ranges_per_file[file_path][n],
                    start_line_num, end_line_num)

\* list.sort(key=lambda item: -item["Offset"]): stable, descending offset.
RECURSIVE InsertByOffset(_, _)
InsertByOffset(sorted, item) ==
    IF sorted = << >> THEN <<item>>
    ELSE IF -item.Offset < -Head(sorted).Offset
         THEN <<item>> \o sorted
         ELSE <<Head(sorted)>> \o InsertByOffset(Tail(sorted), item)

RECURSIVE SortFrom(_, _)
SortFrom(items, sorted) ==
    IF items = << >> THEN sorted
    ELSE SortFrom(Tail(items), InsertByOffset(sorted, Head(items)))

SortReplacements(replacements) == SortFrom(replacements, << >>)

\* One substitution of calculate_replacements_diff.
ApplyReplacement(changed_file, replacement) ==
    Slice(changed_file, 0, replacement.Offset)
        \o replacement.ReplacementText
        \o Slice(changed_file, replacement.Offset + replacement.Length,
                 Len(changed_file))

RECURSIVE ApplyAll(_, _)
ApplyAll(changed_file, replacements) ==
    IF replacements = << >> THEN changed_file
    ELSE ApplyAll(ApplyReplacement(changed_file, Head(replacements)),
                  Tail(replacements))

\* The file with the replacements applied, as calculate_replacements_diff
\* builds it from the bytes on disk.
ChangedFile(bytes, replacements) ==
    ApplyAll(ReadText(bytes), SortReplacements(replacements))

calculate_replacements_diff(bytes, replacements) ==
    Differ_compare(splitlines(ReadText(bytes)),
                   splitlines(ChangedFile(bytes, replacements)))

\* The replacements of one file: [item for item in ... if item["FilePath"]
\* == file_path]
RECURSIVE ReplacementsOf(_, _)
ReplacementsOf(replacements, file_path) ==
    IF replacements = << >> THEN << >>
    ELSE (IF Head(replacements).FilePath = file_path
          THEN <<Head(replacements)>> ELSE << >>)
         \o ReplacementsOf(Tail(replacements), file_path)

single_comment_markers ==
    [Error |-> ":x:", Warning |-> ":warning:", Remark |-> ":speech_balloon:",
     fallback |-> ":grey_question:"]

MarkerOf(level) ==
    IF level \in DOMAIN single_comment_markers
    THEN single_comment_markers[level]
    ELSE single_comment_markers["fallback"]

\* The suggestion of generate_single_comment: None, or the replacement text
\* ending with a newline.
SuggestionOf(replacement_text) ==
    IF replacement_text = NoText THEN NoText
    ELSE IF replacement_text = << >>
            \/ replacement_text[Len(replacement_text)] # LF
         THEN replacement_text \o <<LF>>
         ELSE replacement_text

\* generate_single_comment with start_line and start_side always set.
generate_single_comment_spans(file_path, start_line_num, end_line_num, name, message, single_comment_marker, replacement_text) ==
    [path |-> file_path,
     line |-> end_line_num,
     side |-> "RIGHT",
     start_line |-> start_line_num,
     start_side |-> "RIGHT",
     body |-> [marker     |-> single_comment_marker,
               name       |-> name,
               message    |-> message,
               suggestion |-> SuggestionOf(replacement_text)]]

\* generate_single_comment.  The markdown body is kept as the parts it is
\* rendered from: marker, diagnostic name, message and suggestion.
generate_single_comment(file_path, start_line_num, end_line_num, name, message, single_comment_marker, replacement_text) ==
    LET result == [path |-> file_path,
                   line |-> end_line_num,
                   side |-> "RIGHT",
                   body |-> [marker     |-> single_comment_marker,
                             name       |-> name,
                             message    |-> message,
                             suggestion |-> SuggestionOf(replacement_text)]]
    IN  IF start_line_num # end_line_num
        THEN [k \in DOMAIN result \cup {"start_line", "start_side"} |->
                 IF k = "start_line" THEN start_line_num
                 ELSE IF k = "start_side" THEN "RIGHT"
                 ELSE result[k]]
        ELSE result

(***************************************************************************)
(* State.                                                                  *)
(*   pr_files                   the GitHub metadata of the changed files   *)
(*   clang_tidy_fixes           the "Diagnostics" list, as held in memory  *)
(*   files                      the bytes of each file under the root      *)
(*   diff_line_ranges_per_file  the result of get_diff_line_ranges_per_file*)
(*   pc                         where main / the generator stands          *)
(*   diag_idx                   index of the diagnostic the loop is at     *)
(*   file_order                 the rest of the iteration over the set of  *)
(*                              replacement file paths                     *)
(*   file_path, diff, line_num, start_line_num, end_line_num,              *)
(*   replacement_text           the generator's locals (diff: the lines    *)
(*                              the diff generator has still to yield)     *)
(*   applicable                 the last value that                        *)
(*                              validate_warning_applicability returned    *)
(*   review_comments            the comments yielded so far                *)
(* History, not program state:                                             *)
(*   fixes0                     the diagnostics as handed to the generator *)
(*   edits                      the edits closed so far in the current scan*)
(*   run, first_run             the number of this run over the same       *)
(*                              inputs, and what the first run yielded     *)
(***************************************************************************)
VARIABLES pr_files, clang_tidy_fixes, files, diff_line_ranges_per_file,
          pc, diag_idx, file_order, file_path, diff, line_num,
          start_line_num, end_line_num, replacement_text, applicable,
          review_comments, fixes0, edits, run, first_run

vars == <<pr_files, clang_tidy_fixes, files, diff_line_ranges_per_file,
          pc, diag_idx, file_order, file_path, diff, line_num,
          start_line_num, end_line_num, replacement_text, applicable,
          review_comments, fixes0, edits, run, first_run>>

inputs == <<pr_files, files>>
locals == <<file_order, file_path, diff, line_num, start_line_num,
            end_line_num, replacement_text, applicable>>
scan   == <<line_num, start_line_num, end_line_num, replacement_text>>

\* args.repository_root + "/"
repository_root == <<"/", "r", "/">>

(***************************************************************************)
(* Lines 236-254: upconversion of the Clang-Tidy 8 format and path         *)
(* normalisation, both done in place on the diagnostic.  In an upconverted *)
(* diagnostic diag["Replacements"] and                                     *)
(* diag["DiagnosticMessage"]["Replacements"] are one list object.          *)
(***************************************************************************)
Upconvert(diag) ==
    IF "DiagnosticMessage" \in DOMAIN diag THEN diag
    ELSE [k \in DOMAIN diag \cup {"DiagnosticMessage"} |->
             IF k = "DiagnosticMessage"
             THEN [FileOffset   |-> diag.FileOffset,
                   FilePath     |-> diag.FilePath,
                   Message      |-> diag.Message,
                   Replacements |-> diag.Replacements]
             ELSE diag[k]]

NormalizeReplacements(replacements) ==
    [n \in 1 .. Len(replacements) |->
        [replacements[n] EXCEPT
            !.FilePath = NormalizePath(@, repository_root)]]

NormalizeDiag(diag) ==
    LET up  == Upconvert(diag)
        msg == [up.DiagnosticMessage EXCEPT
                   !.FilePath = NormalizePath(@, repository_root),
                   !.Replacements = NormalizeReplacements(@)]
    IN  [k \in DOMAIN up |->
            IF k = "DiagnosticMessage" THEN msg
            ELSE IF k = "Replacements"
                 THEN NormalizeReplacements(up.Replacements)
                 ELSE up[k]]

\* {item["FilePath"] for item in diag_message_replacements}
ReplacementFiles(replacements) ==
    {replacements[n].FilePath : n \in 1 .. Len(replacements)}

\* The orders in which a set can be iterated.  The set holds strings, whose
\* hashes are salted per process, so the order is not fixed by the input.
IterationOrders(S) ==
    {o \in [1 .. Cardinality(S) -> S] :
        \A m, n \in 1 .. Cardinality(S) : m # n => o[m] # o[n]}

(***************************************************************************)
(* main, lines 776-816                                                     *)
(***************************************************************************)
MainRanges ==
    /\ pc = "main"
    /\ diff_line_ranges_per_file' = get_diff_line_ranges_per_file(pr_files)
    /\ pc' = "fixes"
    /\ UNCHANGED <<inputs, clang_tidy_fixes, diag_idx, locals,
                   review_comments, fixes0, edits, run, first_run>>

MainReorder ==
    /\ pc = "fixes"
    /\ clang_tidy_fixes' = reorder_diagnostics(clang_tidy_fixes)
    /\ fixes0' = clang_tidy_fixes'
    /\ diag_idx' = 1
    /\ pc' = "diag"
    /\ UNCHANGED <<inputs, diff_line_ranges_per_file, locals,
                   review_comments, edits, run, first_run>>

(***************************************************************************)
(* generate_review_comments: the loop over the diagnostics.                *)
(***************************************************************************)

\* The generator is exhausted.
DiagDone ==
    /\ pc = "diag"
    /\ diag_idx > Len(clang_tidy_fixes)
    /\ pc' = "done"
    /\ UNCHANGED <<inputs, clang_tidy_fixes, diff_line_ranges_per_file,
                   diag_idx, locals, review_comments, fixes0, edits, run,
                   first_run>>

\* Lines 236-290: a diagnostic without replacements.
DiagPoint ==
    /\ pc = "diag"
    /\ diag_idx <= Len(clang_tidy_fixes)
    /\ LET diag == NormalizeDiag(clang_tidy_fixes[diag_idx])
           msg  == diag.DiagnosticMessage
           ln   == get_line_by_offset(files[msg.FilePath], msg.FileOffset)
           ok   == validate_warning_applicability(
                       diff_line_ranges_per_file, msg.FilePath, ln, ln)
       IN  /\ msg.Replacements = << >>
           /\ clang_tidy_fixes' =
                  [clang_tidy_fixes EXCEPT ![diag_idx] = diag]
           /\ file_path' = msg.FilePath
           /\ IF msg.FilePath \notin DOMAIN diff_line_ranges_per_file
              THEN UNCHANGED <<line_num, applicable, review_comments>>
              ELSE /\ line_num' = ln
                   /\ applicable' = ok
                   /\ review_comments' =
                          IF ok
                          THEN Append(review_comments,
                                   generate_single_comment(
                                       msg.FilePath, ln, ln,
                                       diag.DiagnosticName, msg.Message,
                                       MarkerOf(diag.Level), NoText))
                          ELSE review_comments
    /\ diag_idx' = diag_idx + 1
    /\ UNCHANGED <<inputs, diff_line_ranges_per_file, pc, file_order, diff,
                   start_line_num, end_line_num, replacement_text, fixes0,
                   edits, run, first_run>>

\* Lines 236-294: a diagnostic with replacements, up to the start of the
\* iteration over the set of its replacement files.
DiagRepl ==
    /\ pc = "diag"
    /\ diag_idx <= Len(clang_tidy_fixes)
    /\ LET diag == NormalizeDiag(clang_tidy_fixes[diag_idx])
           msg  == diag.DiagnosticMessage
       IN  /\ msg.Replacements # << >>
           /\ clang_tidy_fixes' =
                  [clang_tidy_fixes EXCEPT ![diag_idx] = diag]
           /\ file_order' \in
                  IterationOrders(ReplacementFiles(msg.Replacements))
    /\ pc' = "file"
    /\ UNCHANGED <<inputs, diff_line_ranges_per_file, diag_idx, file_path,
                   diff, scan, applicable, review_comments, fixes0, edits,
                   run, first_run>>

(***************************************************************************)
(* generate_review_comments: the loop over the replacement files of one    *)
(* diagnostic, lines 294-315.                                              *)
(***************************************************************************)
CurrentDiag == clang_tidy_fixes[diag_idx]

\* The set is exhausted: on to the next diagnostic.
FileDone ==
    /\ pc = "file"
    /\ file_order = << >>
    /\ diag_idx' = diag_idx + 1
    /\ pc' = "diag"
    /\ UNCHANGED <<inputs, clang_tidy_fixes, diff_line_ranges_per_file,
                   locals, review_comments, fixes0, edits, run, first_run>>

\* The file is not part of the pull request, and that is taken as an error.
FileSkip_raises ==
    /\ pc = "file"
    /\ file_order # << >>
    /\ Head(file_order) \notin DOMAIN diff_line_ranges_per_file
    /\ file_path' = Head(file_order)
    /\ pc' = "aborted"
    /\ UNCHANGED <<inputs, clang_tidy_fixes, diff_line_ranges_per_file,
                   diag_idx, file_order, diff, scan, applicable,
                   review_comments, fixes0, edits, run, first_run>>

\* Lines 295-300: the file is not part of the pull request.
FileSkip ==
    /\ pc = "file"
    /\ file_order # << >>
    /\ Head(file_order) \notin DOMAIN diff_line_ranges_per_file
    /\ file_path' = Head(file_order)
    /\ file_order' = Tail(file_order)
    /\ UNCHANGED <<inputs, clang_tidy_fixes, diff_line_ranges_per_file, pc,
                   diag_idx, diff, scan, applicable, review_comments,
                   fixes0, edits, run, first_run>>

\* Lines 302-315: the locals are reset and the diff of the file is made.
FileStart ==
    /\ pc = "file"
    /\ file_order # << >>
    /\ Head(file_order) \in DOMAIN diff_line_ranges_per_file
    /\ file_path' = Head(file_order)
    /\ file_order' = Tail(file_order)
    /\ line_num' = 1
    /\ start_line_num' = NoLine
    /\ end_line_num' = NoLine
    /\ replacement_text' = NoText
    /\ diff' = calculate_replacements_diff(
                   files[Head(file_order)],
                   ReplacementsOf(CurrentDiag.DiagnosticMessage.Replacements,
                                  Head(file_order)))
    /\ edits' = << >>
    /\ pc' = "scan"
    /\ UNCHANGED <<inputs, clang_tidy_fixes, diff_line_ranges_per_file,
                   diag_idx, applicable, review_comments, fixes0, run,
                   first_run>>

(***************************************************************************)
(* The scan of the diff, lines 316-427.                                    *)
(***************************************************************************)

\* An assertion fails: the exception leaves the generator.
Raise ==
    /\ pc' = "aborted"
    /\ UNCHANGED <<scan, applicable, review_comments, edits>>

\* Lines 361-384 and 404-427: the edit (s, e, text) is tested and, when it
\* applies, yielded as a comment.
CloseEdit(s, e, text) ==
    LET ok == validate_warning_applicability(
                  diff_line_ranges_per_file, file_path, s, e)
    IN  /\ applicable' = ok
        /\ review_comments' =
               IF ok
               THEN Append(review_comments,
                        generate_single_comment(
                            file_path, s, e, CurrentDiag.DiagnosticName,
                            CurrentDiag.DiagnosticMessage.Message,
                            MarkerOf(CurrentDiag.Level), text))
               ELSE review_comments
        /\ edits' = Append(edits, [start_line       |-> s,
                                   end_line         |-> e,
                                   replacement_text |-> text])

\* A line of the original version only, which the line counter does not
\* count.
ScanRemoved_uncounted ==
    IF (start_line_num = NoLine /\ end_line_num # NoLine)
       \/ (start_line_num # NoLine /\ end_line_num = NoLine)
    THEN Raise
    ELSE /\ start_line_num' =
                IF start_line_num = NoLine THEN line_num ELSE start_line_num
         /\ end_line_num' = line_num
         /\ replacement_text' =
                IF replacement_text = NoText THEN << >> ELSE replacement_text
         /\ line_num' = line_num
         /\ pc' = pc
         /\ UNCHANGED <<applicable, review_comments, edits>>

\* Lines 322-336: a line of the original version only.
ScanRemoved ==
    IF (start_line_num = NoLine /\ end_line_num # NoLine)
       \/ (start_line_num # NoLine /\ end_line_num = NoLine)
    THEN Raise
    ELSE /\ start_line_num' =
                IF start_line_num = NoLine THEN line_num ELSE start_line_num
         /\ end_line_num' = line_num
         /\ replacement_text' =
                IF replacement_text = NoText THEN << >> ELSE replacement_text
         /\ line_num' = line_num + 1
         /\ pc' = pc
         /\ UNCHANGED <<applicable, review_comments, edits>>

\* Lines 339-343: a line of the modified version only.
ScanAdded(line) ==
    /\ replacement_text' =
           IF replacement_text = NoText THEN Slice(line, 2, Len(line))
           ELSE replacement_text \o Slice(line, 2, Len(line))
    /\ pc' = pc
    /\ UNCHANGED <<line_num, start_line_num, end_line_num, applicable,
                   review_comments, edits>>

\* A line of both versions, whose own text is left out of the text of an
\* edit that has no line to replace.
ScanUnchanged_bare(line) ==
    IF replacement_text = NoText
    THEN /\ line_num' = line_num + 1
         /\ pc' = pc
         /\ UNCHANGED <<start_line_num, end_line_num, replacement_text,
                        applicable, review_comments, edits>>
    ELSE /\ CloseEdit(IF start_line_num = NoLine THEN line_num
                      ELSE start_line_num,
                      IF start_line_num = NoLine THEN line_num
                      ELSE end_line_num,
                      replacement_text)
         /\ start_line_num' = NoLine
         /\ end_line_num' = NoLine
         /\ replacement_text' = NoText
         /\ line_num' = line_num + 1
         /\ pc' = pc

\* Lines 346-390: a line of both versions.
ScanUnchanged(line) ==
    IF replacement_text = NoText
    THEN /\ line_num' = line_num + 1
         /\ pc' = pc
         /\ UNCHANGED <<start_line_num, end_line_num, replacement_text,
                        applicable, review_comments, edits>>
    ELSE LET pure == start_line_num = NoLine
             s    == IF pure THEN line_num ELSE start_line_num
             e    == IF pure THEN line_num ELSE end_line_num
             text == IF pure
                     THEN replacement_text \o Slice(line, 2, Len(line))
                     ELSE replacement_text
         IN  IF (pure /\ end_line_num # NoLine)
                \/ (~pure /\ end_line_num = NoLine)
                \/ ~(e >= s)
             THEN Raise
             ELSE /\ CloseEdit(s, e, text)
                  /\ start_line_num' = NoLine
                  /\ end_line_num' = NoLine
                  /\ replacement_text' = NoText
                  /\ line_num' = line_num + 1
                  /\ pc' = pc

\* One iteration of the loop over the lines of the diff, lines 316-393.
ScanLine ==
    /\ pc = "scan"
    /\ diff # << >>
    /\ diff' = Tail(diff)
    /\ LET line == Head(diff)
       IN  IF StartsWith(line, <<"?", SP>>)
           THEN /\ pc' = pc
                /\ UNCHANGED <<scan, applicable, review_comments, edits>>
           ELSE IF StartsWith(line, <<"-", SP>>) THEN ScanRemoved
           ELSE IF StartsWith(line, <<"+", SP>>) THEN ScanAdded(line)
           ELSE IF StartsWith(line, <<SP, SP>>) THEN ScanUnchanged(line)
           ELSE Raise
    /\ UNCHANGED <<inputs, clang_tidy_fixes, diff_line_ranges_per_file,
                   diag_idx, file_order, file_path, fixes0, run, first_run>>

\* The diff is exhausted, and an edit that is left open without a line to
\* replace is dropped.
EndOfDiff_drops ==
    /\ pc = "scan"
    /\ diff = << >>
    /\ IF replacement_text = NoText
          \/ start_line_num = NoLine \/ end_line_num = NoLine
       THEN UNCHANGED <<applicable, review_comments, edits>>
       ELSE CloseEdit(start_line_num, end_line_num, replacement_text)
    /\ pc' = "file"
    /\ UNCHANGED <<inputs, clang_tidy_fixes, diff_line_ranges_per_file,
                   diag_idx, file_order, file_path, diff, scan, fixes0, run,
                   first_run>>

\* The diff is exhausted, and whatever edit is open is left unclosed.
EndOfDiff_forgets ==
    /\ pc = "scan"
    /\ diff = << >>
    /\ pc' = "file"
    /\ UNCHANGED <<inputs, clang_tidy_fixes, diff_line_ranges_per_file,
                   diag_idx, file_order, file_path, diff, scan, fixes0, run,
                   first_run, applicable, review_comments, edits>>

\* Lines 395-427: the diff is exhausted.
EndOfDiff ==
    /\ pc = "scan"
    /\ diff = << >>
    /\ IF replacement_text = NoText
       THEN /\ pc' = "file"
            /\ UNCHANGED <<applicable, review_comments, edits>>
       ELSE IF start_line_num = NoLine \/ end_line_num = NoLine
                \/ ~(end_line_num >= start_line_num)
            THEN /\ pc' = "aborted"
                 /\ UNCHANGED <<applicable, review_comments, edits>>
            ELSE /\ CloseEdit(start_line_num, end_line_num,
                              replacement_text)
                 /\ pc' = "file"
    /\ UNCHANGED <<inputs, clang_tidy_fixes, diff_line_ranges_per_file,
                   diag_idx, file_order, file_path, diff, scan, fixes0, run,
                   first_run>>

(***************************************************************************)
(* The pipeline is run again on the inputs it was first given.             *)
(***************************************************************************)
Rerun ==
    /\ pc = "done"
    /\ run = 1
    /\ run' = 2
    /\ first_run' = review_comments
    /\ review_comments' = << >>
    /\ clang_tidy_fixes' = fixes0
    /\ diag_idx' = 1
    /\ pc' = "diag"
    /\ UNCHANGED <<inputs, diff_line_ranges_per_file, locals, fixes0,
                   edits>>

(***************************************************************************)
(* Inputs.  File names are one character long; FC is never changed by the  *)
(* pull request, and FD is neither part of it nor on disk.                 *)
(***************************************************************************)
FA == <<"a">>
FB == <<"b">>
FC == <<"c">>
FD == <<"d">>

\* All sequences over S of length lo .. hi.
SeqsOf(S, lo, hi) == UNION {[1 .. n -> S] : n \in lo .. hi}

\* str(n) for n >= 0
RECURSIVE FormatInt(_)
FormatInt(n) ==
    IF n < 10 THEN <<Digits[n + 1]>>
    ELSE FormatInt(n \div 10) \o <<Digits[(n % 10) + 1]>>

\* A hunk of a unified diff as GitHub sends it: the header
\* "@@ -a[,b] +c[,d] @@[ heading]" and the lines of the hunk.  A length is
\* << >> when the header omits it, <<n>> otherwise.
HunkSide(start, length) ==
    FormatInt(start)
        \o (IF length = << >> THEN << >> ELSE <<",">> \o FormatInt(length[1]))

HunkText(h) ==
    <<"@", "@", SP, "-">> \o HunkSide(h.old_start, h.old_len)
        \o <<SP, "+">> \o HunkSide(h.new_start, h.new_len)
        \o <<SP, "@", "@">> \o h.heading
        \o <<LF, SP, "x", LF, "+", "@", "@", SP, "-", "y", SP, "@", "@">>

PatchText(hunks) ==
    JoinWith([n \in 1 .. Len(hunks) |-> HunkText(hunks[n])], LF)

Hunk(a, b, c, d, heading) ==
    [old_start |-> a, old_len |-> b, new_start |-> c, new_len |-> d,
     heading |-> heading]

\* The range the hunk covers in the new version of the file.
HunkRange(h) ==
    Range(h.new_start,
          h.new_start + (IF h.new_len = << >> THEN 1 ELSE h.new_len[1]))

PrFile(name, hunks) == [filename |-> name, patch |-> PatchText(hunks)]

\* An entry without a patch section (a removed binary file, say).
PrFileNoPatch(name) == [filename |-> name]

InitLocals ==
    /\ file_order = << >>
    /\ file_path = << >>
    /\ diff = << >>
    /\ line_num = NoLine
    /\ start_line_num = NoLine
    /\ end_line_num = NoLine
    /\ replacement_text = NoText
    /\ applicable = FALSE

InitHistory ==
    /\ review_comments = << >>
    /\ edits = << >>
    /\ run = 1
    /\ first_run = << >>

(***************************************************************************)
(* SpecRanges: get_diff_line_ranges_per_file on the metadata of one or two *)
(* files, each with up to MaxHunks hunks.                                  *)
(***************************************************************************)
MaxHunks == 2

RangeHunks ==
    {Hunk(101, <<8>>, 102, <<11>>, << >>),
     Hunk(1, << >>, 102, << >>, << >>),
     Hunk(7, <<0>>, 102, <<0>>, << >>),
     Hunk(12, <<3>>, 1, <<11>>, <<SP, "f", "(", ")">>),
     Hunk(0, <<0>>, 1, << >>, << >>),
     Hunk(30, <<1>>, 1, <<0>>, <<SP, "x", SP, "@", "@", SP, "y">>)}

HunkLists == SeqsOf(RangeHunks, 0, MaxHunks)

\* The hunks of the second file, when it has a patch.
SecondHunks == <<Hunk(1, <<1>>, 1, <<2>>, << >>)>>

InitRanges ==
    /\ \E ha \in HunkLists :
       \E second \in {<< >>, <<PrFileNoPatch(FB)>>,
                      <<PrFile(FB, SecondHunks)>>} :
       \E first \in {PrFile(FA, ha), PrFileNoPatch(FA)} :
           pr_files \in {<<first>> \o second, second \o <<first>>}
    /\ clang_tidy_fixes = << >>
    /\ files = << >>
    /\ diff_line_ranges_per_file = << >>
    /\ pc = "main"
    /\ diag_idx = 0
    /\ fixes0 = << >>
    /\ InitLocals
    /\ InitHistory

NextRanges == MainRanges

SpecRanges == InitRanges /\ [][NextRanges]_vars

(***************************************************************************)
(* Diagnostics in the two wire formats.  A diagnostic name and a message   *)
(* are opaque here and are numbers.                                        *)
(***************************************************************************)
Replacement(path, offset, length, text) ==
    [FilePath |-> path, Offset |-> offset, Length |-> length,
     ReplacementText |-> text]

\* Clang-Tidy 9+
NestedDiag(name, level, path, offset, replacements) ==
    [DiagnosticName |-> name, Level |-> level,
     DiagnosticMessage |-> [FileOffset |-> offset, FilePath |-> path,
                            Message |-> name, Replacements |-> replacements]]

\* Clang-Tidy 8
FlatDiag(name, level, path, offset, replacements) ==
    [DiagnosticName |-> name, Level |-> level, FileOffset |-> offset,
     FilePath |-> path, Message |-> name, Replacements |-> replacements]

(***************************************************************************)
(* SpecReorder: reorder_diagnostics on every list of up to MaxReorder      *)
(* diagnostics over the three known levels and an unknown one; a           *)
(* diagnostic is named by its place in the input.                          *)
(***************************************************************************)
MaxReorder == 4

Levels == {"Error", "Warning", "Remark", "Note"}

InitReorder ==
    /\ \E ls \in SeqsOf(Levels, 1, MaxReorder) :
           clang_tidy_fixes =
               [n \in 1 .. Len(ls) |-> NestedDiag(n, ls[n], FA, 0, << >>)]
    /\ pr_files = << >>
    /\ files = << >>
    /\ diff_line_ranges_per_file = << >>
    /\ pc = "fixes"
    /\ diag_idx = 0
    /\ fixes0 = << >>
    /\ InitLocals
    /\ InitHistory

NextReorder == MainReorder

SpecReorder == InitReorder /\ [][NextReorder]_vars

(***************************************************************************)
(* SpecApplies: validate_warning_applicability called on every list of up  *)
(* to MaxRanges ranges and every start <= end up to MaxLine.               *)
(***************************************************************************)
MaxRanges == 2
MaxLine == 21

ApplyRanges == {Range(10, 20), Range(1, 3), Range(3, 6), Range(4, 4)}

ValidateCall ==
    /\ pc = "validate"
    /\ IF end_line_num >= start_line_num
       THEN /\ applicable' = validate_warning_applicability(
                                 diff_line_ranges_per_file, file_path,
                                 start_line_num, end_line_num)
            /\ pc' = "validated"
       ELSE /\ pc' = "aborted"
            /\ UNCHANGED applicable
    /\ UNCHANGED <<inputs, clang_tidy_fixes, diff_line_ranges_per_file,
                   diag_idx, file_order, file_path, diff, scan,
                   review_comments, fixes0, edits, run, first_run>>

InitApplies ==
    /\ \E rs \in SeqsOf(ApplyRanges, 0, MaxRanges) :
           diff_line_ranges_per_file = [f \in {FA} |-> rs]
    /\ file_path = FA
    /\ start_line_num \in 1 .. MaxLine
    /\ end_line_num \in start_line_num .. MaxLine
    /\ pc = "validate"
    /\ pr_files = << >>
    /\ clang_tidy_fixes = << >>
    /\ files = << >>
    /\ diag_idx = 0
    /\ fixes0 = << >>
    /\ file_order = << >>
    /\ diff = << >>
    /\ line_num = NoLine
    /\ replacement_text = NoText
    /\ applicable = FALSE
    /\ InitHistory

NextApplies == ValidateCall

SpecApplies == InitApplies /\ [][NextApplies]_vars

(***************************************************************************)
(* SpecPoint: one diagnostic without replacements, at every offset of      *)
(* every file content of up to MaxBytes bytes over PointChars.             *)
(***************************************************************************)
MaxBytes == 4

PointChars == {"a", LF, CR}

PointRanges == [f \in {FA} |-> <<Range(1, 3)>>]

InitPoint ==
    /\ \E content \in SeqsOf(PointChars, 0, MaxBytes) :
       \E offset \in 0 .. Len(content) :
           /\ files = [f \in {FA} |-> content]
           /\ clang_tidy_fixes =
                  <<NestedDiag(1, "Warning", FA, offset, << >>)>>
    /\ fixes0 = clang_tidy_fixes
    /\ pr_files = << >>
    /\ diff_line_ranges_per_file = PointRanges
    /\ pc = "diag"
    /\ diag_idx = 1
    /\ InitLocals
    /\ InitHistory

NextPoint == DiagPoint \/ DiagDone

SpecPoint == InitPoint /\ [][NextPoint]_vars

(***************************************************************************)
(* SpecScan: one diagnostic whose replacements all target file FA, for     *)
(* every content of FA of up to MaxLen bytes over ScanChars, or of up to   *)
(* MaxCrLen bytes when carriage returns are among them, and every batch of *)
(* one or two non-overlapping replacements that cut up to MaxCut bytes     *)
(* each, given in either order.                                            *)
(***************************************************************************)
MaxLen == 4
MaxCrLen == 3
MaxCut == 2

ScanChars == {"a", LF}

ScanContents ==
    SeqsOf(ScanChars, 0, MaxLen)
        \cup {c \in SeqsOf(ScanChars \cup {CR}, 0, MaxCrLen) :
                  \E n \in 1 .. Len(c) : c[n] = CR}

ScanTexts == {<< >>, <<"b">>, <<LF>>, <<"b", LF>>}

ScanRanges == [f \in {FA} |-> <<Range(1, 3)>>]

ReplacementsOn(content) ==
    {Replacement(FA, o, l, t) :
        o \in 0 .. Len(content), l \in 0 .. MaxCut, t \in ScanTexts}

\* The replacements stay inside the content and do not overlap.
WellFormedBatch(content, batch) ==
    /\ \A n \in 1 .. Len(batch) :
           batch[n].Offset + batch[n].Length <= Len(content)
    /\ \A m, n \in 1 .. Len(batch) :
           m # n =>
               \/ batch[m].Offset + batch[m].Length <= batch[n].Offset
                  /\ batch[m].Offset < batch[n].Offset
               \/ batch[n].Offset + batch[n].Length <= batch[m].Offset
                  /\ batch[n].Offset < batch[m].Offset

InitScan ==
    /\ \E content \in ScanContents :
       \E batch \in SeqsOf(ReplacementsOn(content), 1, 2) :
           /\ WellFormedBatch(content, batch)
           /\ files = [f \in {FA} |-> content]
           /\ clang_tidy_fixes = <<NestedDiag(1, "Warning", FA, 0, batch)>>
    /\ fixes0 = clang_tidy_fixes
    /\ pr_files = << >>
    /\ diff_line_ranges_per_file = ScanRanges
    /\ pc = "diag"
    /\ diag_idx = 1
    /\ InitLocals
    /\ InitHistory

NextScan == DiagRepl \/ FileStart \/ ScanLine \/ EndOfDiff

SpecScan == InitScan /\ [][NextScan]_vars

(***************************************************************************)
(* Spec: the whole pipeline, from the metadata of the pull request to the  *)
(* list of comments, on every list of up to MaxDiags diagnostics of        *)
(* Catalog and each pull request of PullRequests, over three files.        *)
(***************************************************************************)
MaxDiags == 2

Root(name) == repository_root \o name

FileContents ==
    (FA :> <<"x", LF, "y", LF, "z", LF, "w", LF>>)
        @@ (FB :> <<"p", LF, "q", LF>>)
        @@ (FC :> <<"k", LF>>)

\* FA is changed in two adjacent hunks and FB in one, or FA in one hunk and
\* FB not at all; FC has no patch section.
PullRequests ==
    {<<PrFile(FA, <<Hunk(1, <<2>>, 1, <<2>>, << >>),
                    Hunk(3, <<1>>, 3, <<2>>, << >>)>>),
       PrFileNoPatch(FC),
       PrFile(FB, <<Hunk(1, << >>, 1, <<2>>, << >>)>>)>>,
     <<PrFileNoPatch(FC),
       PrFile(FA, <<Hunk(2, <<2>>, 2, <<2>>, <<SP, "f">>)>>)>>}

Catalog ==
    {\* no replacements: line 2 of FA, line 4 of FA, line 1 of FC
     FlatDiag(1, "Warning", Root(FA), 2, << >>),
     NestedDiag(2, "Error", FA, 6, << >>),
     NestedDiag(3, "Remark", Root(<<".", "/">> \o FC), 0, << >>),
     \* one line of FA and one line of FB
     NestedDiag(4, "Warning", FA, 2,
         <<Replacement(Root(FB), 0, 1, <<"P">>),
           Replacement(FA, 2, 1, <<"Y">>)>>),
     \* lines 2-3 of FA
     NestedDiag(5, "Error", Root(FA), 2,
         <<Replacement(Root(FA), 2, 3, <<"u">>)>>),
     \* FD, and an insertion before line 2 of FA
     FlatDiag(6, "Note", FD, 9,
         <<Replacement(FD, 9, 0, <<"m">>),
           Replacement(Root(FA), 2, 0, <<"n", LF>>)>>),
     \* an insertion at the end of FB
     NestedDiag(7, "Warning", FB, 4,
         <<Replacement(FB, 4, 0, <<"r", LF>>)>>),
     \* lines 1-2 of FA
     FlatDiag(8, "Remark", FA, 0,
         <<Replacement(FA, 0, 3, <<"v">>)>>)}

Init ==
    /\ pr_files \in PullRequests
    /\ clang_tidy_fixes \in SeqsOf(Catalog, 1, MaxDiags)
    /\ files = FileContents
    /\ diff_line_ranges_per_file = << >>
    /\ pc = "main"
    /\ diag_idx = 0
    /\ fixes0 = << >>
    /\ InitLocals
    /\ InitHistory

Next ==
    \/ MainRanges
    \/ MainReorder
    \/ DiagDone
    \/ DiagPoint
    \/ DiagRepl
    \/ FileDone
    \/ FileSkip
    \/ FileStart
    \/ ScanLine
    \/ EndOfDiff
    \/ Rerun

Spec == Init /\ [][Next]_vars

(***************************************************************************)
(* SpecLines: one diagnostic on a file of MaxFileLines one-letter lines,   *)
(* either without replacements at any offset of the file, or with one      *)
(* replacement of the whole lines first .. last by no, one or two new      *)
(* lines; the file has one range, two overlapping ranges or none.          *)
(***************************************************************************)
MaxFileLines == 9

LineNames == <<"a", "b", "c", "d", "e", "f", "g", "h", "i", "j", "k", "l">>

LongContent == Join([n \in 1 .. MaxFileLines |-> <<LineNames[n], LF>>])

LineTexts == {<< >>, <<"X", LF>>, <<"X", LF, "Y", LF>>}

LineRangeLists == {<<Range(6, 12)>>, <<Range(1, 4), Range(2, 6)>>, << >>}

\* The replacement of lines first .. last of LongContent by text.
ReplaceWholeLines(first, last, text) ==
    Replacement(FA, 2 * (first - 1), 2 * (last - first + 1), text)

LineDiags ==
    {NestedDiag(1, "Warning", FA, offset, << >>) :
        offset \in 0 .. Len(LongContent)}
    \cup {NestedDiag(1, "Warning", FA, 2 * (first - 1),
                     <<ReplaceWholeLines(first, last, text)>>) :
              first \in 1 .. MaxFileLines, last \in 1 .. MaxFileLines,
              text \in LineTexts}

InitLines ==
    /\ \E diag \in LineDiags :
           /\ diag.DiagnosticMessage.Replacements # << >> =>
                  diag.DiagnosticMessage.Replacements[1].Length > 0
           /\ clang_tidy_fixes = <<diag>>
    /\ \E ranges \in LineRangeLists :
           diff_line_ranges_per_file = [f \in {FA} |-> ranges]
    /\ files = [f \in {FA} |-> LongContent]
    /\ fixes0 = clang_tidy_fixes
    /\ pr_files = << >>
    /\ pc = "diag"
    /\ diag_idx = 1
    /\ InitLocals
    /\ InitHistory

NextLines ==
    \/ DiagPoint
    \/ DiagRepl
    \/ FileStart
    \/ ScanLine
    \/ EndOfDiff
    \/ FileDone
    \/ DiagDone

SpecLines == InitLines /\ [][NextLines]_vars

(***************************************************************************)
(* SpecDiffLines: the scan on every sequence of up to MaxDiffLines diff    *)
(* lines, each a removed, an added, an unchanged or a marker line, in any  *)
(* order; the state is the one FileStart leaves, but for the diff, which   *)
(* is not bound to come from a file.                                       *)
(***************************************************************************)
MaxDiffLines == 5

DiffLineKinds ==
    {<<"-", SP, "a", LF>>, <<"+", SP, "b", LF>>, <<SP, SP, "a", LF>>,
     <<"?", SP, "^", LF>>}

InitDiffLines ==
    /\ diff \in SeqsOf(DiffLineKinds, 0, MaxDiffLines)
    /\ files = [f \in {FA} |-> << >>]
    /\ clang_tidy_fixes =
           <<NestedDiag(1, "Warning", FA, 0,
                        <<Replacement(FA, 0, 0, <<"b", LF>>)>>)>>
    /\ fixes0 = clang_tidy_fixes
    /\ pr_files = << >>
    /\ diff_line_ranges_per_file = ScanRanges
    /\ pc = "scan"
    /\ diag_idx = 1
    /\ file_order = << >>
    /\ file_path = FA
    /\ line_num = 1
    /\ start_line_num = NoLine
    /\ end_line_num = NoLine
    /\ replacement_text = NoText
    /\ applicable = FALSE
    /\ InitHistory

NextDiffLines == ScanLine \/ EndOfDiff

SpecDiffLines == InitDiffLines /\ [][NextDiffLines]_vars

(***************************************************************************)
(* SpecNumbering: one diagnostic that replaces one letter of FA by         *)
(* another, for every content of up to MaxBreakLen bytes over a letter,    *)
(* the newline and a form feed, and every place of the letter.             *)
(***************************************************************************)
MaxBreakLen == 4

BreakChars == {"a", LF, FF}

InitNumbering ==
    /\ \E content \in SeqsOf(BreakChars, 1, MaxBreakLen) :
       \E offset \in 0 .. Len(content) - 1 :
           /\ content[offset + 1] = "a"
           /\ files = [f \in {FA} |-> content]
           /\ clang_tidy_fixes =
                  <<NestedDiag(1, "Warning", FA, offset,
                               <<Replacement(FA, offset, 1, <<"b">>)>>)>>
    /\ fixes0 = clang_tidy_fixes
    /\ pr_files = << >>
    /\ diff_line_ranges_per_file = ScanRanges
    /\ pc = "diag"
    /\ diag_idx = 1
    /\ InitLocals
    /\ InitHistory

NextNumbering == DiagRepl \/ FileStart \/ ScanLine \/ EndOfDiff

SpecNumbering == InitNumbering /\ [][NextNumbering]_vars

(***************************************************************************)
(* Properties.                                                             *)
(***************************************************************************)

\* The first line of the interval a comment is about.
StartOf(comment) ==
    IF "start_line" \in DOMAIN comment THEN comment.start_line
    ELSE comment.line

\* The lines of a range.
LinesOf(line_range) == line_range.start .. line_range.stop - 1

\* C1: every comment yielded has a path that is a key of the range map, and
\* the interval from its start line (its line when it has none) to its line
\* lies inside one single range of that path; an interval that only
\* overlaps a range, or that only the union of two ranges covers, yields no
\* comment.
C1_CommentInsideOneRange ==
    \A n \in 1 .. Len(review_comments) :
        LET comment == review_comments[n]
        IN  /\ comment.path \in DOMAIN diff_line_ranges_per_file
            /\ StartOf(comment) <= comment.line
            /\ \E r \in 1 .. Len(diff_line_ranges_per_file[comment.path]) :
                   StartOf(comment) .. comment.line
                       \subseteq LinesOf(diff_line_ranges_per_file[comment.path][r])

\* The edit of lines 2-3 of FA was closed and refused where FA has the
\* ranges [1, 3) and [3, 5), and the run went on to its end.
C1_Witness ==
    /\ pc = "done"
    /\ diff_line_ranges_per_file[FA] = <<Range(1, 3), Range(3, 5)>>
    /\ [n \in 1 .. Len(clang_tidy_fixes) |->
           clang_tidy_fixes[n].DiagnosticName] = <<5, 1>>
    /\ edits = <<[start_line |-> 2, end_line |-> 3,
                  replacement_text |-> <<"u", LF>>]>>
    /\ Len(review_comments) = 1
    /\ review_comments[1].line = 2

\* C3: for every list of ranges and every start <= end,
\* validate_warning_applicability is true exactly when some range r of the
\* list has r.start <= start and end < r.stop; with the one range [10, 20)
\* it accepts (10, 19) and refuses (5, 19) and (10, 20); it is false for the
\* empty list.
C3_AppliesIffOneRangeCovers ==
    pc = "validated" =>
        LET ranges == diff_line_ranges_per_file[file_path]
        IN  /\ applicable <=>
                   \E n \in 1 .. Len(ranges) :
                       /\ ranges[n].start <= start_line_num
                       /\ end_line_num < ranges[n].stop
            /\ ranges = << >> => ~applicable
            /\ ranges = <<Range(10, 20)>> =>
                   /\ (start_line_num = 10 /\ end_line_num = 19) => applicable
                   /\ (start_line_num = 5 /\ end_line_num = 19) => ~applicable
                   /\ (start_line_num = 10 /\ end_line_num = 20) => ~applicable

\* (10, 20) was tested against the one range [10, 20) and refused.
C3_Witness ==
    /\ pc = "validated"
    /\ diff_line_ranges_per_file[FA] = <<Range(10, 20)>>
    /\ start_line_num = 10
    /\ end_line_num = 20
    /\ ~applicable

\* C4: a file with a patch text gets one range per hunk header
\* "@@ -a[,b] +c[,d] @@", in the order of the headers, not merged, sorted or
\* deduplicated, each [c, c + d) with d = 1 when the header omits it; a file
\* whose metadata has no patch text is not a key of the map.
C4_OneRangePerHeader ==
    pc = "fixes" =>
        \A n \in 1 .. Len(pr_files) :
            IF "patch" \in DOMAIN pr_files[n]
            THEN /\ pr_files[n].filename \in DOMAIN diff_line_ranges_per_file
                 /\ \E hunks \in HunkLists \cup {SecondHunks} :
                        /\ pr_files[n].patch = PatchText(hunks)
                        /\ diff_line_ranges_per_file[pr_files[n].filename]
                               = [h \in 1 .. Len(hunks) |-> HunkRange(hunks[h])]
            ELSE pr_files[n].filename \notin DOMAIN diff_line_ranges_per_file

\* Two hunks with the same header, which gives no lengths, gave [102, 103)
\* twice; the other file has no patch.
C4_Witness ==
    /\ pc = "fixes"
    /\ Len(pr_files) = 2
    /\ pr_files[1] = PrFileNoPatch(FB)
    /\ DOMAIN diff_line_ranges_per_file = {FA}
    /\ diff_line_ranges_per_file[FA] = <<Range(102, 103), Range(102, 103)>>

\* out is a permutation of in that puts the levels in the order Error,
\* Warning, Remark, other and keeps the order inside each of the four.
Bucket(diag) ==
    IF diag.Level = "Error" THEN 1
    ELSE IF diag.Level = "Warning" THEN 2
    ELSE IF diag.Level = "Remark" THEN 3
    ELSE 4

StablyBucketed(in, out) ==
    /\ Len(out) = Len(in)
    /\ \E p \in [1 .. Len(in) -> 1 .. Len(in)] :
           /\ \A m, n \in 1 .. Len(in) : m # n => p[m] # p[n]
           /\ \A n \in 1 .. Len(in) : out[n] = in[p[n]]
           /\ \A m, n \in 1 .. Len(in) :
                  m < n =>
                      \/ Bucket(out[m]) < Bucket(out[n])
                      \/ Bucket(out[m]) = Bucket(out[n]) /\ p[m] < p[n]

LevelsOf(diags) == [n \in 1 .. Len(diags) |-> diags[n].Level]

\* C6: reorder_diagnostics returns a permutation of its input, nothing
\* dropped or duplicated, with every Error before every Warning, every
\* Warning before every Remark, every Remark before every other level, and
\* the input order kept inside each of these; the levels Remark, Error,
\* Warning, Error come out as Error, Error, Warning, Remark.
C6_StablePermutationByLevel ==
    [][pc = "fixes" =>
          /\ StablyBucketed(clang_tidy_fixes, clang_tidy_fixes')
          /\ LevelsOf(clang_tidy_fixes)
                  = <<"Remark", "Error", "Warning", "Error">>
              => LevelsOf(clang_tidy_fixes')
                     = <<"Error", "Error", "Warning", "Remark">>]_vars

\* Remark, Error, Warning, Error were reordered: the second and the fourth
\* diagnostic lead, in that order.
C6_Witness ==
    /\ pc = "diag"
    /\ LevelsOf(clang_tidy_fixes) = <<"Error", "Error", "Warning", "Remark">>
    /\ [n \in 1 .. Len(clang_tidy_fixes) |->
           clang_tidy_fixes[n].DiagnosticName] = <<2, 4, 3, 1>>

\* The lines of a content, each with its newline byte.
RECURSIVE LinesFrom(_, _)
LinesFrom(content, cur) ==
    IF content = << >> THEN (IF cur = << >> THEN << >> ELSE <<cur>>)
    ELSE IF Head(content) = LF
         THEN <<cur \o <<LF>> >> \o LinesFrom(Tail(content), << >>)
         ELSE LinesFrom(Tail(content), cur \o <<Head(content)>>)

\* The lines with lines start_line .. end_line of every edit replaced by
\* the text of the edit; the edits are in the order they were closed in.
RECURSIVE ReplaceLines(_, _)
ReplaceLines(lines, closed) ==
    IF closed = << >> THEN Join(lines)
    ELSE LET last == closed[Len(closed)]
         IN  ReplaceLines(Slice(lines, 0, last.start_line - 1)
                              \o <<last.replacement_text>>
                              \o Slice(lines, last.end_line, Len(lines)),
                          SubSeq(closed, 1, Len(closed) - 1))

\* The scan of the last file of the diagnostic is over.
ScanOver == pc = "aborted" \/ (pc = "file" /\ file_order = << >>)

\* C2: for any content of a file and any batch of non-overlapping
\* replacements on it, replacing lines start_line .. end_line of the content
\* by replacement_text, for every edit the scan of the file closes, gives
\* the content with the replacements applied.
C2_EditsReproducePatchedContent ==
    ScanOver =>
        ReplaceLines(LinesFrom(files[file_path], << >>), edits)
            = ApplyAll(files[file_path],
                       SortReplacements(ReplacementsOf(
                           CurrentDiag.DiagnosticMessage.Replacements,
                           file_path)))

\* C5: for every content and every byte offset o into it, the line resolved
\* for o is 1 plus the number of newline bytes among the first o bytes,
\* carriage returns in the content or not.
C5_LineIsNewlineBytesPlusOne ==
    (pc = "diag" /\ diag_idx = 2) =>
        line_num = 1 + Count(Slice(files[FA], 0,
                                   fixes0[1].DiagnosticMessage.FileOffset),
                             LF)

\* C7: a second run of the pipeline on the inputs of the first yields the
\* same comments in the same order, also when a diagnostic has replacements
\* in two or more files of the range map.
C7_SecondRunYieldsSameComments ==
    (run = 2 /\ pc = "done") => review_comments = first_run

\* C8: when the diff of a file of the range map ends while an edit made of
\* added lines only is open (text pending, no removed line opened since the
\* last close), the run aborts: no comment is yielded for the edit and the
\* edit is not passed over.
C8_TrailingInsertionAborts ==
    [][(pc = "scan" /\ diff = << >> /\ replacement_text # NoText
            /\ start_line_num = NoLine)
          => /\ pc' = "aborted"
             /\ review_comments' = review_comments
             /\ edits' = edits]_vars

\* "b\n" was added after the one line of "a\n" and the run aborted.
C8_Witness ==
    /\ pc = "aborted"
    /\ files[FA] = <<"a", LF>>
    /\ diff = << >>
    /\ replacement_text = <<"b", LF>>
    /\ start_line_num = NoLine
    /\ line_num = 2
    /\ review_comments = << >>
    /\ edits = << >>

\* The DiagnosticMessage of a diagnostic in either format.
MessageOf(diag) ==
    IF "DiagnosticMessage" \in DOMAIN diag THEN diag.DiagnosticMessage
    ELSE diag

\* C9: a file that is not a key of the range map, be it the file of a
\* diagnostic without replacements or one of the files of its replacements,
\* yields no comment and no error whatever the offsets and the replacements
\* are, and the run goes on with the next file or the next diagnostic.
C9_AbsentFileIsPassedOver ==
    [][/\ (/\ pc = "diag"
           /\ diag_idx <= Len(clang_tidy_fixes)
           /\ MessageOf(CurrentDiag).Replacements = << >>
           /\ NormalizePath(MessageOf(CurrentDiag).FilePath, repository_root)
                  \notin DOMAIN diff_line_ranges_per_file)
          => /\ review_comments' = review_comments
             /\ pc' = "diag"
             /\ diag_idx' = diag_idx + 1
       /\ (/\ pc = "file"
           /\ file_order # << >>
           /\ Head(file_order) \notin DOMAIN diff_line_ranges_per_file)
          => /\ review_comments' = review_comments
             /\ pc' = "file"
             /\ diag_idx' = diag_idx
             /\ file_order' = Tail(file_order)]_vars

\* FC of the third diagnostic and FD of the sixth were passed over, and the
\* sixth still got its comment on FA.
C9_Witness ==
    /\ pc = "done"
    /\ run = 1
    /\ [n \in 1 .. Len(clang_tidy_fixes) |->
           clang_tidy_fixes[n].DiagnosticName] = <<3, 6>>
    /\ Len(review_comments) = 1
    /\ review_comments[1].path = FA
    /\ review_comments[1].body.name = 6

\* C10: once all comments are yielded, every diagnostic is as it was handed
\* in: its fields, its file path, its list of replacements, their file
\* paths and their order, in either format.
C10_DiagnosticsUnchanged ==
    pc = "done" => clang_tidy_fixes = fixes0

\* The last element of a non-empty sequence.
Last(seq) == seq[Len(seq)]

\* The comment is the one of the interval first .. last: side RIGHT, line
\* last, and start_line = first with start_side RIGHT exactly when first
\* differs from last.
CommentOfInterval(comment, first, last) ==
    /\ comment.side = "RIGHT"
    /\ comment.line = last
    /\ IF first # last
       THEN /\ {"start_line", "start_side"} \subseteq DOMAIN comment
            /\ comment.start_line = first
            /\ comment.start_line < comment.line
            /\ comment.start_side = "RIGHT"
       ELSE {"start_line", "start_side"} \cap DOMAIN comment = {}

\* C11: every comment has side RIGHT and as line the end line of its
\* interval; it has start_line, equal to the start line of the interval and
\* so less than line, and start_side RIGHT exactly when the start line
\* differs from the end line, and neither field otherwise; the edit that
\* deletes lines 7-8 inside the range [6, 12) yields one comment with
\* start_line 7 and line 8.
C11_CommentFieldsFollowInterval ==
    [][Len(review_comments') = Len(review_comments) + 1 =>
          /\ SubSeq(review_comments', 1, Len(review_comments))
                 = review_comments
          /\ IF pc = "diag"
             THEN CommentOfInterval(Last(review_comments'),
                                    line_num', line_num')
             ELSE CommentOfInterval(Last(review_comments'),
                                    Last(edits').start_line,
                                    Last(edits').end_line)
          /\ (/\ pc = "scan"
              /\ diff_line_ranges_per_file[FA] = <<Range(6, 12)>>
              /\ Last(edits').start_line = 7
              /\ Last(edits').end_line = 8)
             => /\ Len(review_comments') = 1
                /\ Last(review_comments').start_line = 7
                /\ Last(review_comments').line = 8]_vars

\* Lines 7-8 were replaced by one new line where the file has the range
\* [6, 12): the run ended with one comment, start_line 7 and line 8.
C11_Witness ==
    /\ pc = "done"
    /\ diff_line_ranges_per_file[FA] = <<Range(6, 12)>>
    /\ edits = <<[start_line |-> 7, end_line |-> 8,
                  replacement_text |-> <<"X", LF>>]>>
    /\ Len(review_comments) = 1
    /\ "start_line" \in DOMAIN review_comments[1]
    /\ review_comments[1].start_line = 7
    /\ review_comments[1].line = 8
    /\ review_comments[1].body.suggestion = <<"X", LF>>

\* The ranges of the file that hold the line.
RangesHolding(path, line) ==
    {r \in 1 .. Len(diff_line_ranges_per_file[path]) :
        line \in LinesOf(diff_line_ranges_per_file[path][r])}

\* C12: a diagnostic without replacements whose file is a key of the range
\* map yields exactly one comment, with the line resolved from its offset
\* as line and without start_line, when that line is in one range of the
\* file or in several, and no comment when it is in none.
C12_PointDiagnosticYieldsOneComment ==
    [][(/\ pc = "diag"
        /\ diag_idx <= Len(clang_tidy_fixes)
        /\ MessageOf(CurrentDiag).Replacements = << >>
        /\ NormalizePath(MessageOf(CurrentDiag).FilePath, repository_root)
               \in DOMAIN diff_line_ranges_per_file)
       => LET path == NormalizePath(MessageOf(CurrentDiag).FilePath,
                                    repository_root)
              line == get_line_by_offset(files[path],
                                         MessageOf(CurrentDiag).FileOffset)
          IN  IF RangesHolding(path, line) # {}
              THEN /\ Len(review_comments') = Len(review_comments) + 1
                   /\ SubSeq(review_comments', 1, Len(review_comments))
                          = review_comments
                   /\ Last(review_comments').path = path
                   /\ Last(review_comments').line = line
                   /\ "start_line" \notin DOMAIN Last(review_comments')
              ELSE review_comments' = review_comments]_vars

\* The offset is on line 3, which both [1, 4) and [2, 6) hold, and the run
\* ended with one comment, on line 3.
C12_Witness ==
    /\ pc = "done"
    /\ diff_line_ranges_per_file[FA] = <<Range(1, 4), Range(2, 6)>>
    /\ clang_tidy_fixes[1].DiagnosticMessage.Replacements = << >>
    /\ clang_tidy_fixes[1].DiagnosticMessage.FileOffset = 5
    /\ line_num = 3
    /\ Len(review_comments) = 1
    /\ review_comments[1].line = 3
    /\ "start_line" \notin DOMAIN review_comments[1]

\* C13: when the scan reaches an unchanged line while added text is pending
\* and no removed line was opened since the last close, the edit is closed
\* with start_line = end_line = the number of that line in the original and
\* with the pending text followed by the text of that line as
\* replacement_text; then the three variables are unset and the line
\* counter is one more.
C13_InsertionAnchorsOnUnchangedLine ==
    [][(/\ pc = "scan"
        /\ diff # << >>
        /\ StartsWith(Head(diff), <<SP, SP>>)
        /\ replacement_text # NoText
        /\ start_line_num = NoLine)
       => LET own == SubSeq(Head(diff), 3, Len(Head(diff)))
          IN  /\ splitlines(ReadText(files[file_path]))[line_num] = own
              /\ edits' = Append(edits,
                               [start_line       |-> line_num,
                                end_line         |-> line_num,
                                replacement_text |-> replacement_text \o own])
              /\ start_line_num' = NoLine
              /\ end_line_num' = NoLine
              /\ replacement_text' = NoText
              /\ line_num' = line_num + 1
              /\ pc' = "scan"
              /\ IF RangesHolding(file_path, line_num) # {}
                 THEN /\ Len(review_comments') = Len(review_comments) + 1
                      /\ CommentOfInterval(Last(review_comments'),
                                           line_num, line_num)
                 ELSE review_comments' = review_comments]_vars

\* "b\n" was inserted before the second line of "a\na\n": the edit was
\* closed on line 2 with the text "b\na\n".
C13_Witness ==
    /\ pc = "scan"
    /\ files[FA] = <<"a", LF, "a", LF>>
    /\ edits = <<[start_line |-> 2, end_line |-> 2,
                  replacement_text |-> <<"b", LF, "a", LF>>]>>
    /\ start_line_num = NoLine
    /\ end_line_num = NoLine
    /\ replacement_text = NoText
    /\ line_num = 3
    /\ Len(review_comments) = 1
    /\ review_comments[1].line = 2

\* C14: whatever the order of the removed, added, unchanged and marker
\* lines of the diff, start_line_num and end_line_num are at every state of
\* the scan both unset, or both set with 1 <= start <= end < line counter;
\* so every edit closed has end >= start, and neither the assertion of
\* validate_warning_applicability nor those of the scan of the lines fail:
\* the run aborts at the end of the diff only, on added text without a line
\* to replace.
C14_ScanKeepsStartEndOrdered ==
    /\ \/ start_line_num = NoLine /\ end_line_num = NoLine
       \/ /\ start_line_num # NoLine
          /\ end_line_num # NoLine
          /\ 1 <= start_line_num
          /\ start_line_num <= end_line_num
          /\ end_line_num < line_num
    /\ \A n \in 1 .. Len(edits) :
           /\ 1 <= edits[n].start_line
           /\ edits[n].start_line <= edits[n].end_line
           /\ edits[n].end_line <= line_num
    /\ pc = "aborted" =>
           /\ diff = << >>
           /\ replacement_text # NoText
           /\ start_line_num = NoLine

\* An added line, a removed line, a marker line and a removed line were
\* scanned: lines 1-2 are open and the counter is at 3.
C14_Witness ==
    /\ pc = "scan"
    /\ diff = <<<<SP, SP, "a", LF>>>>
    /\ start_line_num = 1
    /\ end_line_num = 2
    /\ line_num = 3
    /\ replacement_text = <<"b", LF>>
    /\ edits = << >>

\* The numbers, in the original, of the lines the diff gives as removed;
\* line is the number of the first original line of the diff.
RECURSIVE RemovedFrom(_, _)
RemovedFrom(lines, line) ==
    IF lines = << >> THEN {}
    ELSE IF StartsWith(Head(lines), <<"-", SP>>)
         THEN {line} \cup RemovedFrom(Tail(lines), line + 1)
    ELSE IF StartsWith(Head(lines), <<SP, SP>>)
         THEN RemovedFrom(Tail(lines), line + 1)
    ELSE RemovedFrom(Tail(lines), line)

\* The closed edits whose interval holds the line.
EditsHolding(line) ==
    {n \in 1 .. Len(edits) :
        line \in edits[n].start_line .. edits[n].end_line}

\* C15: every removed line of a file of the range map is in the interval of
\* exactly one edit that was closed and tested, whether the edit is closed
\* at the next unchanged line or, the removal reaching the end of the diff,
\* at the end of the diff, where it yields its comment as any other edit
\* does; the intervals of the edits of a file are disjoint and increase.
C15_RemovedLinesInOneEditEach ==
    ScanOver =>
        /\ \A line \in RemovedFrom(
                            calculate_replacements_diff(
                                files[file_path],
                                ReplacementsOf(
                                    CurrentDiag.DiagnosticMessage.Replacements,
                                    file_path)), 1) :
               Cardinality(EditsHolding(line)) = 1
        /\ \A n \in 1 .. Len(edits) - 1 :
               edits[n].end_line < edits[n + 1].start_line
        /\ Len(review_comments)
               = Cardinality({n \in 1 .. Len(edits) :
                                 \E r \in 1 .. Len(diff_line_ranges_per_file[file_path]) :
                                     edits[n].start_line .. edits[n].end_line
                                         \subseteq LinesOf(diff_line_ranges_per_file[file_path][r])})

\* The second line of "a\na\n" was deleted: the removal ran to the end of
\* the diff, where the edit of line 2 was closed and yielded its comment.
C15_Witness ==
    /\ pc = "file"
    /\ file_order = << >>
    /\ files[FA] = <<"a", LF, "a", LF>>
    /\ edits = <<[start_line |-> 2, end_line |-> 2,
                  replacement_text |-> << >>]>>
    /\ line_num = 3
    /\ Len(review_comments) = 1
    /\ review_comments[1].line = 2

\* C16: the two paths number the lines alike for every content: the line
\* counter at which an edit is opened is the line that get_line_by_offset
\* gives for an offset inside the same original line; here the edit of the
\* one letter replaced is on the line resolved for the offset of the letter.
C16_EditLineIsResolvedLine ==
    edits # << >> =>
        /\ edits[1].start_line
               = get_line_by_offset(
                     files[FA],
                     fixes0[1].DiagnosticMessage.Replacements[1].Offset)
        /\ edits[1].end_line = edits[1].start_line

====
